---------------------------- MODULE Spec2Model ----------------------------
(***************************************************************************)
(* A model of merge-runner-ui.py: the per-tick update of GameView          *)
(* (on_update), its key commands (on_key_press), the boss behaviour        *)
(* (Boss.update_behavior), the projectiles (Projectile.update) and the     *)
(* leaderboard file (save_score).                                          *)
(*                                                                         *)
(* Numbers.  The program computes with floats.  Every real quantity is     *)
(* kept here in fixed point with two decimals: a position of 200 px is     *)
(* 20000, an elapsed time of 0.5 s is 50, a score of 25 is 2500.  With dt  *)
(* a whole number of hundredths of a second, speed*dt, 0.6*dx, 0.05*dx and *)
(* distance/4 are whole numbers of hundredths, so the model's arithmetic   *)
(* is exact.  Health and damage are whole numbers in the program and are   *)
(* not scaled.                                                             *)
(*                                                                         *)
(* Geometry.  arcade's collision test works on the sprites' hit boxes,     *)
(* which come from image files that are not part of the repository.  The   *)
(* model uses axis-aligned boxes around each sprite's centre with the      *)
(* half extents named below (HalfW, HalfH).                                *)
(***************************************************************************)
EXTENDS Integers, Sequences, FiniteSets, TLC

\* ------------------------------------------------------------- fixed point
\* One unit of the program (a pixel, a second, a score point) in the model.
Unit == 10 * 10

Abs(n) == IF n < 0 THEN -n ELSE n
Max(a, b) == IF a >= b THEN a ELSE b
Min(a, b) == IF a <= b THEN a ELSE b
Sign(n) == IF n < 0 THEN -1 ELSE IF n > 0 THEN 1 ELSE 0
\* Division rounding toward zero, as int() does on a float.
TruncDiv(a, b) == IF a >= 0 THEN a \div b ELSE -((-a) \div b)

\* ------------------------------------------------------ program constants
DISTANCE_FOR_BOSS == 2000 * Unit
BASE_SPEED == 180
SCREEN_HEIGHT == 600 * Unit
PLAYER_START_X == 200 * Unit
PLAYER_START_Y == 200 * Unit
PLAYER_MAX_HEALTH == 100
OBSTACLE_Y == 200 * Unit
BOSS_Y == 220 * Unit
BOSS_AHEAD == 900 * Unit
AIM_Y == 200 * Unit
REAP_BEHIND == 900 * Unit
KNOCKBACK == 140 * Unit
MIN_X == 200 * Unit
JUMP_DY == 90 * Unit
MELEE_RANGE == 140 * Unit
SKILL_RANGE == 220 * Unit
SKILL_COOLDOWN == 3 * Unit
COIN_SCORE == 25 * Unit
OBSTACLE_PENALTY == 40 * Unit
WIN_SCORE == 700 * Unit
BOSS_CONTACT_DMG == 40
LEADERBOARD_SIZE == 10
INITIAL_OBSTACLES == 6
INITIAL_COINS == 5

\* Hit boxes (half extents) of the sprites; the images are not in the
\* repository, the values are those of typical art at the given scale.
PlayerHalfW == 30 * Unit
PlayerHalfH == 50 * Unit
ObstacleHalfW == 25 * Unit
ObstacleHalfH == 25 * Unit
CoinHalfW == 12 * Unit
CoinHalfH == 12 * Unit
ProjHalfW == 10 * Unit
ProjHalfH == 10 * Unit
BossHalfW == 80 * Unit
BossHalfH == 80 * Unit

\* arcade.check_for_collision on two unrotated box hit boxes.
Overlap(ax, ay, ahw, ahh, bx, by, bhw, bhh) ==
    /\ Abs(ax - bx) < ahw + bhw
    /\ Abs(ay - by) < ahh + bhh

\* -------------------------------------------------------------- the state
VARIABLES
    stage,          \* "new" (constructed), "run" (shown), "menu", "restarted"
                    \* the other variables are the fields of the GameView that
                    \* the window shows or is about to show
    player_x, player_y,
    obstacles,      \* sequence of x positions (y is fixed)
    coins,          \* sequence of [x, y]
    projectiles,    \* sequence of [x, y, vx, vy]
    explosions,     \* number of emitters created
    boss,           \* << >> (None) or <<[max_health, health, shoot_timer, phase, x, y]>>
    boss_active,
    distance, next_boss_at, score,
    player_health,
    damage_popups,  \* sequence of [x, y, val, t]
    skill_cd, obstacle_timer, coin_timer,
    game_over,
    leaderboard,    \* the leaderboard file: sequence of [name, score]
    lose_calls,     \* history: number of calls of lose_game
    win_calls,      \* history: number of calls of win_boss
    boss_spawns,    \* history: number of calls of spawn_boss
    impacts,        \* history: number of obstacle impacts applied
    reaped,         \* history: number of sprites removed by "cleanup behind"
                    \* in the latest tick
    culled,         \* history: number of projectiles removed by the bounds
                    \* rule while between the player and the boss, in the
                    \* latest tick
    contact,        \* history: what the boss contact of the latest tick
                    \* found and left (n = 0: there was none)
    submitted,      \* history: the entries given to save_score, in order
    idle_ticks,     \* history: number of ticks taken with dt <= 0
    over_ticks,     \* history: number of ticks taken since the run ended
    player_file,    \* player_data.json: "missing", "corrupt" or "saved"
    board_file,     \* leaderboard.json: "missing", "corrupt" or "saved";
                    \* leaderboard is its content when it is "saved"
    shown           \* the scores that LeaderboardView lists

vars == <<stage, player_x, player_y, obstacles, coins, projectiles, explosions,
          boss, boss_active, distance, next_boss_at, score, player_health,
          damage_popups, skill_cd, obstacle_timer, coin_timer, game_over,
          leaderboard, lose_calls, win_calls, boss_spawns, impacts, reaped,
          culled, contact, submitted, idle_ticks, over_ticks, player_file,
          board_file, shown>>

\* What the menu views and the histories of idle and terminal ticks hold: no
\* step of a run that is on touches them.
menu_vars == <<idle_ticks, over_ticks, player_file, shown>>


\* The fields of GameView that a tick or a command reads and writes, as one
\* record, so that the steps of on_update compose as the code runs them.
Game == [player_x |-> player_x, player_y |-> player_y, obstacles |-> obstacles,
         coins |-> coins, projectiles |-> projectiles, explosions |-> explosions,
         boss |-> boss, boss_active |-> boss_active, distance |-> distance,
         next_boss_at |-> next_boss_at, score |-> score,
         player_health |-> player_health, damage_popups |-> damage_popups,
         skill_cd |-> skill_cd, obstacle_timer |-> obstacle_timer,
         coin_timer |-> coin_timer, game_over |-> game_over,
         leaderboard |-> leaderboard, lose_calls |-> lose_calls,
         win_calls |-> win_calls, boss_spawns |-> boss_spawns,
         impacts |-> impacts, reaped |-> reaped, culled |-> culled,
         contact |-> contact, submitted |-> submitted,
         board_file |-> board_file]

\* vars' = the fields of g (stage is set by the action itself).
Store(g) ==
    /\ player_x' = g.player_x /\ player_y' = g.player_y
    /\ obstacles' = g.obstacles /\ coins' = g.coins
    /\ projectiles' = g.projectiles /\ explosions' = g.explosions
    /\ boss' = g.boss /\ boss_active' = g.boss_active
    /\ distance' = g.distance /\ next_boss_at' = g.next_boss_at
    /\ score' = g.score /\ player_health' = g.player_health
    /\ damage_popups' = g.damage_popups /\ skill_cd' = g.skill_cd
    /\ obstacle_timer' = g.obstacle_timer /\ coin_timer' = g.coin_timer
    /\ game_over' = g.game_over /\ leaderboard' = g.leaderboard
    /\ lose_calls' = g.lose_calls /\ win_calls' = g.win_calls
    /\ boss_spawns' = g.boss_spawns /\ impacts' = g.impacts
    /\ reaped' = g.reaped /\ culled' = g.culled /\ contact' = g.contact
    /\ submitted' = g.submitted /\ board_file' = g.board_file

\* No boss contact yet.
NoContact ==
    [n |-> 0, dist |-> 0, score_in |-> 0, health_in |-> 0, health_out |-> 0,
     boss_in |-> 0, boss_out |-> 0, popups_in |-> 0, popups_out |-> 0,
     lose_in |-> 0, lose_out |-> 0, win_in |-> 0, win_out |-> 0]

\* GameView.__init__: the fields of a freshly constructed view.  The
\* leaderboard file is not part of the view: it is kept as it is.
NewGame(file) ==
    [player_x |-> PLAYER_START_X, player_y |-> PLAYER_START_Y,
     obstacles |-> << >>, coins |-> << >>, projectiles |-> << >>,
     explosions |-> 0, boss |-> << >>, boss_active |-> FALSE,
     distance |-> 0, next_boss_at |-> DISTANCE_FOR_BOSS, score |-> 0,
     player_health |-> PLAYER_MAX_HEALTH, damage_popups |-> << >>,
     skill_cd |-> 0, obstacle_timer |-> 0, coin_timer |-> 0,
     game_over |-> FALSE, leaderboard |-> file, lose_calls |-> 0,
     win_calls |-> 0, boss_spawns |-> 0, impacts |-> 0, reaped |-> 0,
     culled |-> 0, contact |-> NoContact, submitted |-> submitted,
     board_file |-> board_file]

\* ------------------------------------------------------------ leaderboard
\* The insertion that puts e before the entries of its own score.
RECURSIVE InsertDescBefore(_, _)
InsertDescBefore(sorted, e) ==
    IF sorted = << >> THEN <<e>>
    ELSE IF Head(sorted).score > e.score
         THEN <<Head(sorted)>> \o InsertDescBefore(Tail(sorted), e)
         ELSE <<e>> \o sorted

\* Insert e into a list sorted by descending score, after every entry whose
\* score is at least e's: what a stable sort does with the appended entry.
RECURSIVE InsertDesc(_, _)
InsertDesc(sorted, e) ==
    IF sorted = << >> THEN <<e>>
    ELSE IF Head(sorted).score >= e.score
         THEN <<Head(sorted)>> \o InsertDesc(Tail(sorted), e)
         ELSE <<e>> \o sorted

\* sorted(data, key=score, reverse=True): a stable sort, descending.
RECURSIVE SortedDesc(_)
SortedDesc(data) ==
    IF data = << >> THEN << >>
    ELSE InsertDesc(SortedDesc(SubSeq(data, 1, Len(data) - 1)), data[Len(data)])

\* json.load of leaderboard.json under "except Exception": the content of
\* a file that is there and parses, and [] otherwise.
read_board(bf, content) == IF bf = "saved" THEN content ELSE << >>

\* load_leaderboard(): the same read, for the leaderboard view.
load_leaderboard(bf, content) == IF bf = "saved" THEN content ELSE << >>

\* load_player(): json.load of player_data.json under "except
\* FileNotFoundError": None when the file is missing, the data when it
\* parses, and the JSONDecodeError of json.load, which the handler does not
\* name, when it does not.
load_player(pf) ==
    IF pf = "missing" THEN "None"
    ELSE IF pf = "corrupt" THEN "raise"
    ELSE "data"

\* save_score(name, score): append, sort, keep the first ten.
save_score(file, name, sc) ==
    LET data == SortedDesc(file \o <<[name |-> name, score |-> sc]>>)
    IN  SubSeq(data, 1, Min(Len(data), LEADERBOARD_SIZE))

\* ------------------------------------------------------ terminal handlers
\* lose_game: the run is over; int(score) goes to the leaderboard.
lose_game(g) ==
    [g EXCEPT !.game_over = TRUE,
              !.lose_calls = @ + 1,
              !.leaderboard = save_score(read_board(g.board_file, @), "Player",
                                         TruncDiv(g.score, Unit)),
              !.board_file = "saved",
              !.submitted = Append(@, [name |-> "Player",
                                       score |-> TruncDiv(g.score, Unit)])]

\* win_boss: explosion at the boss, +700, the boss is cleared.
win_boss(g) ==
    [g EXCEPT !.explosions = @ + 1,
              !.score = @ + WIN_SCORE,
              !.boss_active = FALSE,
              !.boss = << >>,
              !.win_calls = @ + 1]

\* ------------------------------------------------------- steps of a tick
\* The cooldown that never runs down.
CooldownStuck(g, dt) == g

\* on_update, "cooldowns".
Cooldown(g, dt) ==
    IF g.skill_cd > 0 THEN [g EXCEPT !.skill_cd = Max(0, g.skill_cd - dt)] ELSE g

\* on_update, "movement & distance": dx = speed * dt.
Advance(g, dt) ==
    LET dx == BASE_SPEED * dt
    IN  [g EXCEPT !.player_x = @ + dx,
                  !.distance = @ + (dx * 6) \div 10,
                  !.score = @ + (dx * 5) \div 100]

\* The cadences, as the comparison timer > max(floor, base - distance/k),
\* both sides multiplied by k.
ObstacleDue(timer, dist) == timer * 8000 > Max(60 * 8000, 240 * 8000 - dist)
CoinDue(timer, dist) == timer * 9000 > Max(80 * 9000, 230 * 9000 - dist)

\* int(player.center_x + offset), offset a whole number of pixels.
SpawnX(px, off) == TruncDiv(px + off * Unit, Unit) * Unit

spawn_obstacle(g, off) ==
    [g EXCEPT !.obstacles = Append(@, SpawnX(g.player_x, off))]

spawn_coin(g, off, cy) ==
    [g EXCEPT !.coins = Append(@, [x |-> SpawnX(g.player_x, off), y |-> cy * Unit])]

\* on_update, "spawn obstacles & coins gradually".
Spawn(g, dt, oOff, cOff, cY) ==
    LET t  == [g EXCEPT !.obstacle_timer = @ + dt, !.coin_timer = @ + dt]
        o  == IF ObstacleDue(t.obstacle_timer, t.distance)
              THEN [spawn_obstacle(t, oOff) EXCEPT !.obstacle_timer = 0]
              ELSE t
    IN  IF CoinDue(o.coin_timer, o.distance)
        THEN [spawn_coin(o, cOff, cY) EXCEPT !.coin_timer = 0]
        ELSE o

\* on_update, "cleanup behind".
Behind(x, px) == x < px - REAP_BEHIND

\* The cleanup that leaves the coins alone.
ReapObstaclesOnly(g) ==
    LET os == SelectSeq(g.obstacles, LAMBDA x : ~Behind(x, g.player_x))
    IN  [g EXCEPT !.obstacles = os,
                  !.reaped = @ + (Len(g.obstacles) - Len(os))]

Reap(g) ==
    LET os == SelectSeq(g.obstacles, LAMBDA x : ~Behind(x, g.player_x))
        cs == SelectSeq(g.coins, LAMBDA c : ~Behind(c.x, g.player_x))
    IN  [g EXCEPT !.obstacles = os,
                  !.coins = cs,
                  !.reaped = @ + (Len(g.obstacles) - Len(os))
                               + (Len(g.coins) - Len(cs))]

HitsCoin(g, c) ==
    Overlap(g.player_x, g.player_y, PlayerHalfW, PlayerHalfH,
            c.x, c.y, CoinHalfW, CoinHalfH)

HitsObstacle(g, x) ==
    Overlap(g.player_x, g.player_y, PlayerHalfW, PlayerHalfH,
            x, OBSTACLE_Y, ObstacleHalfW, ObstacleHalfH)

\* The pickup that pays 25 once for all the coins of a tick.
CollectCoinsOnce(g) ==
    LET n == Len(SelectSeq(g.coins, LAMBDA c : HitsCoin(g, c)))
    IN  [g EXCEPT !.coins = SelectSeq(@, LAMBDA c : ~HitsCoin(g, c)),
                  !.score = @ + (IF n > 0 THEN COIN_SCORE ELSE 0)]

\* on_update, "collisions: coins".
CollectCoins(g) ==
    LET n == Len(SelectSeq(g.coins, LAMBDA c : HitsCoin(g, c)))
    IN  [g EXCEPT !.coins = SelectSeq(@, LAMBDA c : ~HitsCoin(g, c)),
                  !.score = @ + n * COIN_SCORE]

\* Impacts with the penalty subtracted without the floor at 0.
RECURSIVE ImpactsNoFloor(_, _)
ImpactsNoFloor(g, n) ==
    IF n = 0 THEN g
    ELSE ImpactsNoFloor([g EXCEPT !.score = @ - OBSTACLE_PENALTY,
                                  !.player_x = Max(MIN_X, @ - KNOCKBACK),
                                  !.impacts = @ + 1], n - 1)

\* The knockback that has no minimum.
KnockedBackFree(x) == x - KNOCKBACK

\* player.center_x = max(200, player.center_x - 140)
KnockedBack(x) == Max(MIN_X, x - KNOCKBACK)

\* One obstacle of the hit list: penalty floored at 0, knockback.
RECURSIVE Impacts(_, _)
Impacts(g, n) ==
    IF n = 0 THEN g
    ELSE Impacts([g EXCEPT !.score = Max(0, @ - OBSTACLE_PENALTY),
                           !.player_x = KnockedBack(@),
                           !.impacts = @ + 1], n - 1)

\* on_update, "collisions: obstacles": the hit list is taken once, at the
\* player's position before any knockback.
HitObstacles(g) ==
    LET n == Len(SelectSeq(g.obstacles, LAMBDA x : HitsObstacle(g, x)))
        r == [g EXCEPT !.obstacles = SelectSeq(@, LAMBDA x : ~HitsObstacle(g, x))]
    IN  Impacts(r, n)


\* --------------------------------------------------------------- the boss
\* spawn_boss: health scales with the distance, the boss stands 900 px
\* ahead, and the projectile list is replaced by an empty one.
spawn_boss(g) ==
    LET mh == 80 + TruncDiv(g.distance, 500 * Unit) * 10
    IN  [g EXCEPT !.boss = <<[max_health |-> mh, health |-> mh,
                              shoot_timer |-> 0, phase |-> 1,
                              x |-> g.player_x + BOSS_AHEAD, y |-> BOSS_Y]>>,
                  !.boss_active = TRUE,
                  !.projectiles = << >>,
                  !.boss_spawns = @ + 1]

\* The increase of the threshold without its growth with the distance.
ThresholdStepFlat(dist) == DISTANCE_FOR_BOSS

\* The increase of the threshold: DISTANCE_FOR_BOSS * (1 + distance / 8000).
ThresholdStep(dist) == DISTANCE_FOR_BOSS + dist \div 4

\* The boss spawn without the test that no boss is active.
BossSpawnAlways(g) ==
    IF g.distance >= g.next_boss_at
    THEN [spawn_boss(g) EXCEPT !.next_boss_at = @ + ThresholdStep(g.distance)]
    ELSE g

\* on_update, "boss spawn".
BossSpawn(g) ==
    IF ~g.boss_active /\ g.distance >= g.next_boss_at
    THEN [spawn_boss(g) EXCEPT !.next_boss_at = @ + ThresholdStep(g.distance)]
    ELSE g

\* The phase with the ratio taken by integer division (0 until full health).
PhaseOfIntDiv(health, max_health) ==
    LET r == health \div Max(1, max_health)
    IN  IF 100 * r > 66 THEN 1 ELSE IF 100 * r > 33 THEN 2 ELSE 3

\* update_behavior, "determine phase": ratio = health / max(1, max_health)
\* against 0.66 and 0.33, as comparisons of whole numbers.
PhaseOf(health, max_health) ==
    LET m == Max(1, max_health)
    IN  IF 100 * health > 66 * m THEN 1
        ELSE IF 100 * health > 33 * m THEN 2
        ELSE 3

Interval(phase) == IF phase = 1 THEN 120 ELSE IF phase = 2 THEN 90 ELSE 50
Speed(phase) == IF phase = 1 THEN 5 ELSE IF phase = 2 THEN 6 ELSE 7
MoveSpeed(phase) == IF phase = 1 THEN 0 ELSE IF phase = 2 THEN 80 ELSE 140

\* speed * (1 + (3 - phase) * 0.2), in hundredths.
ShotSpeed(phase) == (Speed(phase) * (10 + (3 - phase) * 2) * Unit) \div 10

\* The projectiles of one volley: aimed from the boss at the player's x and
\* at height 200; u is the draw of random.uniform(0.8, 2.0), in hundredths.
Volley(b, px, u) ==
    LET dx   == px - b.x
        dy   == AIM_Y - b.y
        dist == Max(Abs(dx), Unit)
        vx   == TruncDiv(dx * ShotSpeed(b.phase), dist)
        vy   == TruncDiv(dy * u, dist)
        p    == [x |-> b.x - 30 * Unit, y |-> b.y, vx |-> vx, vy |-> vy]
        p2   == [x |-> b.x - 30 * Unit, y |-> b.y + 50 * Unit,
                 vx |-> vx, vy |-> vy + Unit]
    IN  IF b.phase = 3 THEN <<p, p2>> ELSE <<p>>

\* Whether update_behavior fires in this tick.
Fires(b, dt) ==
    b.shoot_timer + dt >= Interval(PhaseOf(b.health, b.max_health))

\* Boss.update_behavior(dt, player_x, projectiles).
update_behavior(g, dt, u) ==
    LET b0 == g.boss[1]
        ph == PhaseOf(b0.health, b0.max_health)
        b1 == [b0 EXCEPT !.shoot_timer = @ + dt, !.phase = ph,
                         !.x = @ - MoveSpeed(ph)]
    IN  IF b1.shoot_timer >= Interval(ph)
        THEN [g EXCEPT !.boss = <<[b1 EXCEPT !.shoot_timer = 0]>>,
                       !.projectiles = @ \o Volley(b1, g.player_x, u)]
        ELSE [g EXCEPT !.boss = <<b1>>]

\* ------------------------------------------------------------ projectiles
OutOfBounds(p) ==
    \/ p.x < -1000 * Unit \/ p.x > 10000 * Unit
    \/ p.y < -1000 * Unit \/ p.y > 3000 * Unit

\* A projectile on its way from the boss to the player, at play height.
InPlay(g, p) ==
    /\ g.boss # << >>
    /\ g.player_x <= p.x /\ p.x <= g.boss[1].x
    /\ 0 <= p.y /\ p.y <= SCREEN_HEIGHT

Moved(p) == [p EXCEPT !.x = @ + p.vx, !.y = @ + p.vy]

RECURSIVE MapMoved(_)
MapMoved(ps) ==
    IF ps = << >> THEN << >> ELSE <<Moved(Head(ps))>> \o MapMoved(Tail(ps))

\* SpriteList.update(): Projectile.update on each; one that ends out of
\* bounds removes itself.
UpdateProjectiles(g) ==
    LET moved == MapMoved(g.projectiles)
    IN  [g EXCEPT !.projectiles = SelectSeq(moved, LAMBDA p : ~OutOfBounds(p)),
                  !.culled = @ + Len(SelectSeq(moved,
                                 LAMBDA p : OutOfBounds(p) /\ InPlay(g, p)))]

HitsProjectile(g, p) ==
    Overlap(p.x, p.y, ProjHalfW, ProjHalfH,
            g.player_x, g.player_y, PlayerHalfW, PlayerHalfH)

HitsBoss(g) ==
    Overlap(g.player_x, g.player_y, PlayerHalfW, PlayerHalfH,
            g.boss[1].x, g.boss[1].y, BossHalfW, BossHalfH)

Popup(x, y, val, t) == [x |-> x, y |-> y, val |-> val, t |-> t]

\* One projectile that hit the player: damage, popup, and defeat with the
\* health set to 0 when it is used up.
ProjectileHit(g, dmg) ==
    LET h == [g EXCEPT !.player_health = @ - dmg,
                       !.damage_popups = Append(@, Popup(g.player_x,
                                           g.player_y + 80 * Unit, dmg, Unit))]
    IN  IF h.player_health <= 0
        THEN lose_game([h EXCEPT !.player_health = 0])
        ELSE h

RECURSIVE ProjectileHits(_, _)
ProjectileHits(g, dmgs) ==
    IF dmgs = << >> THEN g
    ELSE ProjectileHits(ProjectileHit(g, Head(dmgs)), Tail(dmgs))

NumProjectileHits(g) == Len(SelectSeq(g.projectiles, LAMBDA p : HitsProjectile(g, p)))

\* on_update, "projectile collisions with player": dmgs holds one draw of
\* random.randint(8, 18) for each projectile that overlaps the player.
ProjectileCollisions(g, dmgs) ==
    ProjectileHits([g EXCEPT !.projectiles =
                        SelectSeq(@, LAMBDA p : ~HitsProjectile(g, p))], dmgs)

ContactDamage(dist) == 18 + TruncDiv(dist, 1000 * Unit)

\* The checks in the other order: the boss's death first.
ContactChecksBossFirst(h) ==
    LET w == IF h.boss[1].health <= 0 THEN win_boss(h) ELSE h
    IN  IF w.player_health <= 0 THEN lose_game(w) ELSE w

\* The two checks after the damage of a contact: lose_game() if the player
\* is out of health, then win_boss() if the boss is.
ContactChecks(h) ==
    LET l == IF h.player_health <= 0 THEN lose_game(h) ELSE h
    IN  IF l.boss[1].health <= 0 THEN win_boss(l) ELSE l

\* on_update, "boss collision with player": both take damage; the player's
\* death is checked first, then the boss's.
BossContact(g) ==
    IF ~HitsBoss(g) THEN g
    ELSE LET dmg == ContactDamage(g.distance)
             h   == [g EXCEPT !.player_health = @ - dmg,
                              !.boss = <<[g.boss[1] EXCEPT !.health = @ - BOSS_CONTACT_DMG]>>,
                              !.damage_popups = Append(@, Popup(g.player_x,
                                                  g.player_y + 80 * Unit, dmg, Unit))]
             w   == ContactChecks(h)
         IN  [w EXCEPT !.contact =
                 [n |-> g.contact.n + 1, dist |-> g.distance,
                  score_in |-> g.score,
                  health_in |-> g.player_health, health_out |-> w.player_health,
                  boss_in |-> g.boss[1].health, boss_out |-> h.boss[1].health,
                  popups_in |-> Len(g.damage_popups),
                  popups_out |-> Len(w.damage_popups),
                  lose_in |-> g.lose_calls, lose_out |-> w.lose_calls,
                  win_in |-> g.win_calls, win_out |-> w.win_calls]]

\* on_update, "if boss HP depleted".
BossDepleted(g) ==
    IF g.boss # << >> /\ g.boss[1].health <= 0 THEN win_boss(g) ELSE g

\* on_update, "update damage popups timers".
DecayPopups(g, dt) ==
    LET live == SelectSeq(g.damage_popups, LAMBDA q : q.t - dt > 0)
    IN  [g EXCEPT !.damage_popups =
            [i \in 1..Len(live) |-> [live[i] EXCEPT !.t = @ - dt]]]


\* ------------------------------------------------------------- the bounds
\* Ticks stop once the distance has reached MaxDistance (in pixels), and
\* jumps once the player has jumped MaxJumps times.
MaxDistance == 3000
MaxJumps == 1
\* Ticks after the end of a run are counted up to MaxOverTicks.
MaxOverTicks == 2
\* The same for the long runs (SpecLong), which take ticks of five seconds
\* and so see several bosses.
LongMaxDistance == 8500
LongDtSet == {500}
LongObstacleOffsets == {900}
LongCoinOffsets == {900}
\* The same for the far runs (SpecFar): long runs that go on until a boss
\* can have outlived the raised threshold by a third of it.
FarMaxDistance == 8700

\* The same for the runs with high coins (SpecHigh).
HighMaxDistance == 3000
\* The top of random.randint(240, 320): a coin the player passes under.
HighCoinHeights == {320}

\* The same for the runs with idle ticks (SpecIdle), which take at most
\* MaxIdleTicks ticks with an elapsed time that is not positive.
IdleMaxDistance == 2400
MaxIdleTicks == 1
IdleDtSet == {0, -100}

\* The calls of save_score that SpecBoard follows, and what they submit.
MaxSaves == 11
SaveEntries == {[name |-> "Player", score |-> 1], [name |-> "Ann", score |-> 1],
                [name |-> "Player", score |-> 2]}

\* The states of a data file, and the leaderboards that SpecFiles starts with.
FileStates == {"missing", "corrupt", "saved"}
BoardContents == {<< >>,
                  <<[name |-> "Player", score |-> 1]>>,
                  <<[name |-> "Player", score |-> 2]>>,
                  <<[name |-> "Ann", score |-> 1]>>,
                  <<[name |-> "Ann", score |-> 2]>>,
                  <<[name |-> "Ann", score |-> 2], [name |-> "Player", score |-> 2]>>,
                  <<[name |-> "Player", score |-> 2], [name |-> "Ann", score |-> 1]>>}

\* The elapsed times a tick is called with, in hundredths of a second.
DtSet == {100}
\* The draws of random.randint(600, 3000) and random.randint(500, 2600).
ObstacleOffsets == {720}
CoinOffsets == {540}
\* The draws of random.randint(240, 320), the height of a coin.
CoinHeights == {240}
\* The draws of random.uniform(0.8, 2.0), in hundredths.
AimDraws == {200}
\* The draws of random.randint(8, 18) and random.randint(8, 16).
ProjectileDamage == {8, 18}
MeleeDamage == {16}

\* ---------------------------------------------------------------- actions
\* The state after GameView.__init__, with the leaderboard file missing.
Fresh(file) ==
    /\ submitted = << >>
    /\ idle_ticks = 0
    /\ over_ticks = 0
    /\ shown = << >>
    /\ LET g == NewGame(file)
       IN
        /\ player_x = g.player_x /\ player_y = g.player_y
        /\ obstacles = g.obstacles /\ coins = g.coins
        /\ projectiles = g.projectiles /\ explosions = g.explosions
        /\ boss = g.boss /\ boss_active = g.boss_active
        /\ distance = g.distance /\ next_boss_at = g.next_boss_at
        /\ score = g.score /\ player_health = g.player_health
        /\ damage_popups = g.damage_popups /\ skill_cd = g.skill_cd
        /\ obstacle_timer = g.obstacle_timer /\ coin_timer = g.coin_timer
        /\ game_over = g.game_over /\ leaderboard = g.leaderboard
        /\ lose_calls = g.lose_calls /\ win_calls = g.win_calls
        /\ boss_spawns = g.boss_spawns /\ impacts = g.impacts
        /\ reaped = g.reaped /\ culled = g.culled /\ contact = g.contact

\* A view constructed with no data files yet.
Init ==
    /\ stage = "new"
    /\ player_file = "missing"
    /\ board_file = "missing"
    /\ Fresh(<< >>)

\* setup(): six obstacles and five coins are spawned; then the two lists are
\* rebuilt with arcade.SpriteList(old list).  kept tells whether the rebuilt
\* lists hold the spawned sprites: SpriteList's first parameter is
\* use_spatial_hash in arcade 2.6, which leaves the new lists empty.
SetupBody(oOffs, cOffs, cYs) ==
    /\ \E os \in [1..INITIAL_OBSTACLES -> oOffs],
          cs \in [1..INITIAL_COINS -> cOffs \X cYs],
          kept \in BOOLEAN :
            /\ obstacles' = IF kept
                            THEN [i \in 1..INITIAL_OBSTACLES |-> SpawnX(player_x, os[i])]
                            ELSE << >>
            /\ coins' = IF kept
                        THEN [i \in 1..INITIAL_COINS |->
                                [x |-> SpawnX(player_x, cs[i][1]), y |-> cs[i][2] * Unit]]
                        ELSE << >>
    /\ projectiles' = << >>
    /\ explosions' = 0
    /\ stage' = "run"
    /\ UNCHANGED <<player_x, player_y, boss, boss_active, distance, next_boss_at,
                   score, player_health, damage_popups, skill_cd, obstacle_timer,
                   coin_timer, game_over, leaderboard, lose_calls, win_calls,
                   boss_spawns, impacts, reaped, culled, contact, submitted,
                   board_file, idle_ticks, over_ticks, shown>>

\* setup() on the view that was constructed.
Setup(oOffs, cOffs, cYs) ==
    /\ stage = "new"
    /\ SetupBody(oOffs, cOffs, cYs)
    /\ UNCHANGED player_file

\* on_update up to the boss: cooldown, movement, spawning, cleanup, coins,
\* obstacles, boss spawn.
BeforeBoss(g, dt, oOff, cOff, cY) ==
    BossSpawn(HitObstacles(CollectCoins(Reap(
        Spawn(Advance(Cooldown(g, dt), dt), dt, oOff, cOff, cY)))))

\* on_update, "boss behavior", up to the projectiles' update.
BossMoves(g, dt, u) ==
    IF g.boss_active /\ g.boss # << >>
    THEN UpdateProjectiles(update_behavior(g, dt, u))
    ELSE g

\* on_update, the rest of "boss behavior": collisions and the boss's defeat.
BossCollisions(g, dmgs) ==
    IF g.boss_active /\ g.boss # << >>
    THEN BossDepleted(BossContact(ProjectileCollisions(g, dmgs)))
    ELSE g

\* The draws a tick makes: none where the code draws none.
ObstacleDraws(dt, oOffs) ==
    IF ObstacleDue(obstacle_timer + dt, Advance(Game, dt).distance)
    THEN oOffs ELSE {0}
CoinDraws(dt, cs) ==
    IF CoinDue(coin_timer + dt, Advance(Game, dt).distance) THEN cs ELSE {0}
ShotDraws(g, dt, us) ==
    IF g.boss_active /\ g.boss # << >> /\ Fires(g.boss[1], dt) THEN us ELSE {0}
HitDraws(g, ds) ==
    IF g.boss_active /\ g.boss # << >>
    THEN [1..NumProjectileHits(g) -> ds] ELSE {<< >>}

\* The histories of a tick (reaped, culled, contact) are those of the latest
\* tick: they start empty with it.
TickStart(g) == [g EXCEPT !.reaped = 0, !.culled = 0, !.contact = NoContact]

\* The body of on_update(dt) after its early return.
TickBody(dts, oOffs, cOffs, cYs, us, ds) ==
    \E dt \in dts :
       \E oOff \in ObstacleDraws(dt, oOffs), cOff \in CoinDraws(dt, cOffs),
          cY \in CoinDraws(dt, cYs) :
         LET g1 == BeforeBoss(TickStart(Game), dt, oOff, cOff, cY)
         IN  \E u \in ShotDraws(g1, dt, us) :
               LET g2 == BossMoves(g1, dt, u)
               IN  \E dmgs \in HitDraws(g2, ds) :
                     Store(DecayPopups(BossCollisions(g2, dmgs), dt))

\* on_update(dt) while the run is on.
Tick(maxd, dts, oOffs, cOffs, cYs, us, ds) ==
    /\ stage = "run"
    /\ ~game_over
    /\ distance < maxd * Unit
    /\ TickBody(dts, oOffs, cOffs, cYs, us, ds)
    /\ UNCHANGED <<stage, menu_vars>>

\* on_update without its early return: the movement goes on after the end.
TickOverMoving ==
    /\ stage = "run"
    /\ game_over
    /\ over_ticks < MaxOverTicks
    /\ \E dt \in {100} : Store(Advance(Game, dt))
    /\ over_ticks' = over_ticks + 1
    /\ UNCHANGED <<stage, idle_ticks, player_file, shown>>

\* on_update(dt) after the run has ended: only the emitters are updated, and
\* the early return leaves every field as it was, the popups included.
TickOver ==
    /\ stage = "run"
    /\ game_over
    /\ over_ticks < MaxOverTicks
    /\ Store(Game)
    /\ over_ticks' = over_ticks + 1
    /\ UNCHANGED <<stage, idle_ticks, player_file, shown>>

\* SPACE.
Jump ==
    /\ stage = "run"
    /\ player_y < PLAYER_START_Y + MaxJumps * JUMP_DY
    /\ IF game_over THEN UNCHANGED player_y ELSE player_y' = player_y + JUMP_DY
    /\ UNCHANGED <<stage, player_x, obstacles, coins, projectiles, explosions,
                   boss, boss_active, distance, next_boss_at, score,
                   player_health, damage_popups, skill_cd, obstacle_timer,
                   coin_timer, game_over, leaderboard, lose_calls, win_calls,
                   boss_spawns, impacts, reaped, culled, contact, submitted,
                   board_file, menu_vars>>

\* The punch without the test of the boss's health after it.
MeleeHitNoWin(g, dmg) ==
    IF g.boss_active /\ g.boss # << >>
       /\ Abs(g.boss[1].x - g.player_x) < MELEE_RANGE
    THEN [g EXCEPT !.boss = <<[g.boss[1] EXCEPT !.health = @ - dmg]>>,
                   !.damage_popups = Append(@, Popup(g.boss[1].x,
                                       g.boss[1].y + 100 * Unit, dmg, 90))]
    ELSE g

\* Z: a punch lands when the boss is within 140 px.
MeleeHit(g, dmg) ==
    IF g.boss_active /\ g.boss # << >>
       /\ Abs(g.boss[1].x - g.player_x) < MELEE_RANGE
    THEN LET h == [g EXCEPT !.boss = <<[g.boss[1] EXCEPT !.health = @ - dmg]>>,
                            !.damage_popups = Append(@, Popup(g.boss[1].x,
                                                g.boss[1].y + 100 * Unit, dmg, 90))]
         IN  IF h.boss[1].health <= 0 THEN win_boss(h) ELSE h
    ELSE g

Melee(ds) ==
    /\ stage = "run"
    /\ \E dmg \in ds : Store(IF game_over THEN Game ELSE MeleeHit(Game, dmg))
    /\ UNCHANGED <<stage, menu_vars>>

\* The skill's damage with the base of the contact damage.
SkillDamageContact(dist) == 18 + TruncDiv(dist, 1000 * Unit)

SkillDamage(dist) == 40 + TruncDiv(dist, 1000 * Unit)

\* The skill without the cooldown gate.
SkillCastNoGate(g) ==
    LET c == [g EXCEPT !.skill_cd = SKILL_COOLDOWN]
        dmg == SkillDamage(g.distance)
    IN  IF c.boss_active /\ c.boss # << >>
        THEN LET h == [c EXCEPT
                  !.boss = <<[c.boss[1] EXCEPT !.health = @ - dmg]>>,
                  !.damage_popups = Append(@, Popup(c.boss[1].x,
                                      c.boss[1].y + 100 * Unit, dmg, 120))]
             IN  IF h.boss[1].health <= 0 THEN win_boss(h) ELSE h
        ELSE [c EXCEPT !.obstacles = SelectSeq(@,
                  LAMBDA x : ~(Abs(x - c.player_x) < SKILL_RANGE))]

\* X: the skill, when it is off cooldown.
SkillCast(g) ==
    IF g.skill_cd <= 0
    THEN LET c == [g EXCEPT !.skill_cd = SKILL_COOLDOWN]
             dmg == SkillDamage(g.distance)
         IN  IF c.boss_active /\ c.boss # << >>
             THEN LET h == [c EXCEPT
                       !.boss = <<[c.boss[1] EXCEPT !.health = @ - dmg]>>,
                       !.damage_popups = Append(@, Popup(c.boss[1].x,
                                           c.boss[1].y + 100 * Unit, dmg, 120))]
                  IN  IF h.boss[1].health <= 0 THEN win_boss(h) ELSE h
             ELSE [c EXCEPT !.obstacles = SelectSeq(@,
                       LAMBDA x : ~(Abs(x - c.player_x) < SKILL_RANGE))]
    ELSE g

Skill ==
    /\ stage = "run"
    /\ Store(IF game_over THEN Game ELSE SkillCast(Game))
    /\ UNCHANGED <<stage, menu_vars>>

\* R: after the run has ended, a new GameView is constructed and replaces
\* this one; the variables then hold the new view's fields.  The new run is
\* not followed further.
Restart ==
    /\ stage = "run"
    /\ IF game_over
       THEN /\ stage' = "restarted"
            /\ Store(NewGame(leaderboard))
            /\ over_ticks' = 0
            /\ UNCHANGED <<idle_ticks, player_file, shown>>
       ELSE UNCHANGED vars

\* ESCAPE: the menu replaces this view, whose fields are gone with it.
ReturnToMenu ==
    /\ stage = "run"
    /\ stage' = "menu"
    /\ Store(NewGame(leaderboard))
    /\ over_ticks' = 0
    /\ UNCHANGED <<idle_ticks, player_file, shown>>

SetupStep == Setup(ObstacleOffsets, CoinOffsets, CoinHeights)
TickStep == Tick(MaxDistance, DtSet, ObstacleOffsets, CoinOffsets, CoinHeights, AimDraws,
                 ProjectileDamage)
MeleeStep == Melee(MeleeDamage)

Next ==
    \/ SetupStep
    \/ TickStep
    \/ TickOver
    \/ Jump
    \/ MeleeStep
    \/ Skill
    \/ Restart
    \/ ReturnToMenu

Spec == Init /\ [][Next]_vars

\* A tick of a run that is on, as the distance shows it: on_update is the
\* only code that changes the distance, it adds 0.6 * speed * dt, and it
\* does so whenever the run is on (below the bound of the model).
TickAdvance ==
    /\ stage = "run"
    /\ ~game_over
    /\ distance < MaxDistance * Unit
    /\ \E dt \in DtSet : distance' = distance + 108 * dt

\* The same runs with the window's schedule: arcade calls on_update for every
\* frame, so a tick that can be taken is taken in the end, before the end of
\* the run and after it.  Key presses are the user's, and nothing is assumed
\* of them.
SpecLive == Spec /\ WF_distance(TickAdvance) /\ WF_vars(TickOver)

\* The long runs: the same program under ticks of five seconds.
TickLong == Tick(LongMaxDistance, LongDtSet, LongObstacleOffsets, LongCoinOffsets,
                 CoinHeights, AimDraws, ProjectileDamage)

NextLong ==
    \/ SetupStep
    \/ TickLong
    \/ TickOver
    \/ Jump
    \/ MeleeStep
    \/ Skill
    \/ Restart
    \/ ReturnToMenu

SpecLong == Init /\ [][NextLong]_vars

\* The far runs: the long runs, a tick further.
TickFar == Tick(FarMaxDistance, LongDtSet, LongObstacleOffsets, LongCoinOffsets,
                CoinHeights, AimDraws, ProjectileDamage)

NextFar ==
    \/ SetupStep
    \/ TickFar
    \/ TickOver
    \/ Jump
    \/ MeleeStep
    \/ Skill
    \/ Restart
    \/ ReturnToMenu

SpecFar == Init /\ [][NextFar]_vars

\* on_update(dt) with dt <= 0: the code has no test of dt, so the body runs.
TickIdle(dts, oOffs, cOffs, cYs, us, ds) ==
    /\ stage = "run"
    /\ ~game_over
    /\ idle_ticks < MaxIdleTicks
    /\ TickBody(dts, oOffs, cOffs, cYs, us, ds)
    /\ idle_ticks' = idle_ticks + 1
    /\ UNCHANGED <<stage, over_ticks, player_file, shown>>

\* The runs with idle ticks: the same program, called now and then with an
\* elapsed time of zero or less.  They stop at IdleMaxDistance, in the first
\* boss fight and before a run can end, so on_update's early return is not
\* among their steps.
TickShort == Tick(IdleMaxDistance, DtSet, ObstacleOffsets, CoinOffsets,
                  CoinHeights, AimDraws, ProjectileDamage)
TickIdleStep == TickIdle(IdleDtSet, ObstacleOffsets, CoinOffsets, CoinHeights,
                         AimDraws, ProjectileDamage)

NextIdle ==
    \/ SetupStep
    \/ TickShort
    \/ TickIdleStep
    \/ Jump
    \/ MeleeStep
    \/ Skill
    \/ Restart
    \/ ReturnToMenu

SpecIdle == Init /\ [][NextIdle]_vars

\* The leaderboard file on its own: save_score called again and again, as
\* the ends of successive runs do, starting with no file or an empty list.
InitBoard ==
    /\ stage = "scores"
    /\ player_file = "missing"
    /\ board_file \in {"missing", "saved"}
    /\ Fresh(<< >>)

SaveScore(entries, max) ==
    /\ stage = "scores"
    /\ Len(submitted) < max
    /\ \E e \in entries :
         /\ leaderboard' = save_score(read_board(board_file, leaderboard),
                                      e.name, e.score)
         /\ submitted' = Append(submitted, e)
    /\ board_file' = "saved"
    /\ UNCHANGED <<stage, player_x, player_y, obstacles, coins, projectiles,
                   explosions, boss, boss_active, distance, next_boss_at, score,
                   player_health, damage_popups, skill_cd, obstacle_timer,
                   coin_timer, game_over, lose_calls, win_calls, boss_spawns,
                   impacts, reaped, culled, contact, menu_vars>>

NextBoard == SaveScore(SaveEntries, MaxSaves)

SpecBoard == InitBoard /\ [][NextBoard]_vars

\* The menu with data files in any state.
InitFiles ==
    /\ stage = "menu"
    /\ player_file \in FileStates
    /\ board_file \in FileStates
    /\ \E content \in (IF board_file = "saved" THEN BoardContents ELSE {<< >>}) :
         Fresh(content)

\* MenuView.load_game ("Load Last Save"): with data, a GameView is set up
\* and shown; with None, a beep; an exception of load_player leaves the
\* handler and ends the program.
LoadGame(oOffs, cOffs, cYs) ==
    /\ stage = "menu"
    /\ LET data == load_player(player_file)
       IN  IF data = "raise"
           THEN /\ stage' = "crashed"
                /\ UNCHANGED <<player_x, player_y, obstacles, coins, projectiles,
                               explosions, boss, boss_active, distance,
                               next_boss_at, score, player_health, damage_popups,
                               skill_cd, obstacle_timer, coin_timer, game_over,
                               leaderboard, lose_calls, win_calls, boss_spawns,
                               impacts, reaped, culled, contact, submitted,
                               board_file, idle_ticks, over_ticks, shown>>
           ELSE IF data = "None"
           THEN UNCHANGED <<stage, player_x, player_y, obstacles, coins,
                            projectiles, explosions, boss, boss_active, distance,
                            next_boss_at, score, player_health, damage_popups,
                            skill_cd, obstacle_timer, coin_timer, game_over,
                            leaderboard, lose_calls, win_calls, boss_spawns,
                            impacts, reaped, culled, contact, submitted,
                            board_file, idle_ticks, over_ticks, shown>>
           ELSE SetupBody(oOffs, cOffs, cYs)
    /\ UNCHANGED player_file

\* CharacterSelectView.start: the choice is saved, a GameView set up and shown.
StartNew(oOffs, cOffs, cYs) ==
    /\ stage = "menu"
    /\ player_file' = "saved"
    /\ SetupBody(oOffs, cOffs, cYs)

\* LeaderboardView.on_show: the first ten scores that load_leaderboard gives.
ShowLeaderboard ==
    /\ stage = "menu"
    /\ stage' = "leaderboard"
    /\ LET scores == load_leaderboard(board_file, leaderboard)
       IN  shown' = SubSeq(scores, 1, Min(Len(scores), LEADERBOARD_SIZE))
    /\ UNCHANGED <<player_x, player_y, obstacles, coins, projectiles,
                   explosions, boss, boss_active, distance, next_boss_at, score,
                   player_health, damage_popups, skill_cd, obstacle_timer,
                   coin_timer, game_over, leaderboard, lose_calls, win_calls,
                   boss_spawns, impacts, reaped, culled, contact, submitted,
                   board_file, idle_ticks, over_ticks, player_file>>

\* LeaderboardView, "Back".
BackToMenu ==
    /\ stage = "leaderboard"
    /\ stage' = "menu"
    /\ UNCHANGED <<player_x, player_y, obstacles, coins, projectiles,
                   explosions, boss, boss_active, distance, next_boss_at, score,
                   player_health, damage_popups, skill_cd, obstacle_timer,
                   coin_timer, game_over, leaderboard, lose_calls, win_calls,
                   boss_spawns, impacts, reaped, culled, contact, submitted,
                   board_file, idle_ticks, over_ticks, player_file, shown>>

LoadGameStep == LoadGame(ObstacleOffsets, CoinOffsets, CoinHeights)
StartNewStep == StartNew(ObstacleOffsets, CoinOffsets, CoinHeights)

NextFiles ==
    \/ LoadGameStep
    \/ StartNewStep
    \/ ShowLeaderboard
    \/ BackToMenu
    \/ ReturnToMenu

SpecFiles == InitFiles /\ [][NextFiles]_vars

\* The runs with high coins: the same program with the coins drawn at the
\* top of their range, where the player on the ground passes under them.
SetupHigh == Setup(ObstacleOffsets, CoinOffsets, HighCoinHeights)
TickHigh == Tick(HighMaxDistance, DtSet, ObstacleOffsets, CoinOffsets,
                 HighCoinHeights, AimDraws, ProjectileDamage)

NextHigh ==
    \/ SetupHigh
    \/ TickHigh
    \/ TickOver
    \/ Jump
    \/ MeleeStep
    \/ Skill
    \/ Restart
    \/ ReturnToMenu

SpecHigh == Init /\ [][NextHigh]_vars


\* ----------------------------------------------------------------- claims
\* A step of the run that is shown: neither setup, nor a restart, nor the
\* return to the menu (which replace the view).
RunStep == stage = "run" /\ stage' = "run"
\* A step in which on_update ran with the run on: only it moves the distance.
TickRan == distance' # distance

\* C1: in every reachable state 0 <= player_health <= player_max_health,
\* after every damage source (projectile hits, boss body contact, several
\* hits in one tick).
C1_HealthInRange ==
    0 <= player_health /\ player_health <= PLAYER_MAX_HEALTH

\* C2: the score is never negative, and an operation lowers it only when it
\* is a tick that applied an obstacle impact; distance accrual, coin pickup,
\* boss defeat and the commands never lower it.
C2_ScoreMonotone ==
    /\ [](score >= 0)
    /\ [][RunStep /\ score' < score => TickRan /\ impacts' > impacts]_vars

\* C2's case: an impact has taken the score down to the floor.
C2_Witness == stage = "run" /\ impacts > 0 /\ score = 0 /\ distance > 0

\* C3: lose_game runs exactly once per run, in the first tick in which the
\* player's health is used up, whatever lands on the player in that tick.
C3_DefeatOnce == lose_calls = (IF game_over THEN 1 ELSE 0)


\* The gameplay state that the terminal state freezes.
gameplay == <<player_x, player_y, distance, score, player_health, skill_cd,
              obstacle_timer, coin_timer, boss, boss_active, next_boss_at,
              obstacles, coins, projectiles>>

\* C4: once game_over is set, every later tick and every Jump, Melee or Skill
\* command leaves the gameplay state unchanged and game_over set; the view
\* is left only by Restart or ReturnToMenu, and Restart is accepted only in
\* the terminal state.
C4_TerminalFrozen ==
    /\ [][stage = "run" /\ game_over =>
            /\ stage' \in {"run", "restarted", "menu"}
            /\ stage' = "run" => game_over' /\ UNCHANGED gameplay]_vars
    /\ [][stage' = "restarted" => stage = "run" /\ game_over]_vars

\* C4's case: the run has ended and the view is still shown.
C4_Witness == stage = "run" /\ game_over /\ lose_calls >= 1

\* C5: boss_active holds exactly when a boss object exists, and spawn_boss
\* runs only in a tick that starts with no active boss.
C5_OneBoss ==
    /\ [](boss_active <=> boss # << >>)
    /\ [][RunStep /\ boss_spawns' # boss_spawns =>
            /\ ~boss_active /\ boss = << >>
            /\ TickRan
            /\ boss_spawns' = boss_spawns + 1]_vars

\* C5's case: a boss has been spawned and is active.
C5_Witness == stage = "run" /\ boss_active /\ boss_spawns = 1 /\ boss # << >>

\* The phase that belongs to a health ratio: 1 above 0.66, 2 above 0.33, else 3.
C6_Phase(health, max_health) ==
    CASE 100 * health > 66 * max_health -> 1
      [] 100 * health <= 66 * max_health /\ 100 * health > 33 * max_health -> 2
      [] OTHER -> 3

\* C6 as claimed: in every state with a boss, the stored phase is the phase
\* that belongs to health / max_health.
C6_PhasePure ==
    boss # << >> => boss[1].phase = C6_Phase(boss[1].health, boss[1].max_health)

\* C6, amended: a tick stores the phase that belongs to the ratio the boss
\* has when the tick's boss update starts (full health for a boss spawned in
\* that tick); the damage of the same tick's body contact and of the Melee
\* and Skill commands leaves the stored phase as it is.
C6_PhaseCached ==
    [][RunStep /\ boss' # << >> =>
         IF TickRan
         THEN boss'[1].phase =
                IF boss # << >>
                THEN C6_Phase(boss[1].health, boss[1].max_health)
                ELSE 1
         ELSE boss # << >> /\ boss'[1].phase = boss[1].phase]_vars

\* C6's case: the stored phase lags behind the ratio after damage.
C6_Witness ==
    /\ stage = "run" /\ boss # << >>
    /\ boss[1].phase = 2
    /\ C6_Phase(boss[1].health, boss[1].max_health) = 3

\* C7: the threshold starts at 2000; spawn_boss runs only in a tick with no
\* boss active and distance >= threshold; each spawn raises the threshold by
\* 2000 * (1 + distance / 8000), a strict increase; nothing else changes it.
C7_Threshold ==
    /\ [](boss_spawns = 0 => next_boss_at = 2000 * Unit)
    /\ [][RunStep =>
            IF boss_spawns' # boss_spawns
            THEN /\ ~boss_active /\ TickRan
                 /\ distance' >= next_boss_at
                 /\ 4 * (next_boss_at' - next_boss_at) = 4 * 2000 * Unit + distance'
                 /\ next_boss_at' > next_boss_at
            ELSE next_boss_at' = next_boss_at]_vars

\* C7's case: a second boss has spawned, past the threshold the first spawn
\* had raised.
C7_Witness == stage = "run" /\ boss_spawns = 2 /\ next_boss_at > 4000 * Unit

\* C8: no state holds an active boss with health <= 0; a defeat clears the
\* boss and adds 700 to the score once; a command that finds no boss changes
\* neither the score nor the boss.
C8_BossDefeat ==
    /\ [](boss # << >> => boss[1].health > 0)
    /\ [][RunStep =>
            /\ win_calls' - win_calls \in {0, 1}
            /\ win_calls' # win_calls =>
                  boss # << >> /\ boss' = << >> /\ ~boss_active'
            /\ ~TickRan => score' = score + 700 * Unit * (win_calls' - win_calls)
            /\ TickRan /\ impacts' = impacts /\ coins' = coins =>
                  12 * (score' - score) =
                      (distance' - distance) + 12 * 700 * Unit * (win_calls' - win_calls)
            /\ ~TickRan /\ boss = << >> =>
                  boss' = << >> /\ win_calls' = win_calls /\ score' = score]_vars

\* C8's case: a boss has been defeated.
C8_Witness == stage = "run" /\ win_calls = 1 /\ boss = << >> /\ ~boss_active

\* C9: a Skill command during the cooldown changes nothing; the cooldown
\* rises only by a cast at cooldown 0, to 3.0; it falls only in a tick, by
\* the tick's elapsed time, down to 0 at most.
C9_SkillCooldown ==
    /\ [](0 <= skill_cd /\ skill_cd <= 3 * Unit)
    /\ [][Skill /\ skill_cd > 0 => UNCHANGED vars]_vars
    /\ [][RunStep /\ skill_cd' > skill_cd =>
            skill_cd = 0 /\ skill_cd' = 3 * Unit /\ ~TickRan]_vars
    /\ [][RunStep /\ skill_cd' < skill_cd =>
            /\ TickRan
            /\ skill_cd' = Max(0, skill_cd - (distance' - distance) \div 108)]_vars

\* C9's case: the skill has been cast and the cooldown is running down.
C9_Witness == stage = "run" /\ 0 < skill_cd /\ skill_cd < 3 * Unit

\* C10: a successful cast with a boss takes 40 + floor(distance / 1000) from
\* the boss's health (defeating it, +700, when that uses the health up) and
\* removes no obstacle; with no boss it removes exactly the obstacles nearer
\* than 220 to the player and leaves coins, score and health alone.
C10_SkillTarget ==
    [][Skill /\ ~game_over /\ skill_cd = 0 =>
         LET dmg == 40 + distance \div (1000 * Unit)
         IN  IF boss_active /\ boss # << >>
             THEN /\ obstacles' = obstacles
                  /\ IF boss[1].health - dmg <= 0
                     THEN boss' = << >> /\ score' = score + 700 * Unit
                     ELSE /\ boss' # << >>
                          /\ boss'[1].health = boss[1].health - dmg
                          /\ score' = score
             ELSE /\ obstacles' = SelectSeq(obstacles,
                         LAMBDA x : Abs(x - player_x) >= 220 * Unit)
                  /\ coins' = coins /\ score' = score
                  /\ player_health' = player_health
                  /\ boss' = boss]_vars

\* C10's case: two casts have taken a boss of 120 to 78 and then to 36.
C10_Witness ==
    /\ stage = "run" /\ boss # << >>
    /\ boss[1].max_health = 120 /\ boss[1].health = 36

\* The elapsed time of the tick of a step (dt > 0), from the distance it made.
TickDt == (distance' - distance) \div 108
\* The player at the time of the tick's collision tests: advanced by
\* speed * dt, before any knockback.
Advanced == [player_x |-> player_x + 180 * TickDt, player_y |-> player_y]

\* C11: in a tick in which k coins overlap the player, exactly these k are
\* removed and the score rises by 25 for each, on top of the tick's accrual
\* for the distance; the pickup changes neither health nor position.
C11_CoinPickup ==
    [][RunStep /\ TickRan =>
         LET hit(c) == ~Behind(c.x, Advanced.player_x) /\ HitsCoin(Advanced, c)
             k    == Cardinality({i \in 1..Len(coins) : hit(coins[i])})
             kept == SelectSeq(coins, LAMBDA c :
                        ~Behind(c.x, Advanced.player_x) /\ ~HitsCoin(Advanced, c))
         IN  /\ Len(coins') \in {Len(kept), Len(kept) + 1}
             /\ SubSeq(coins', 1, Len(kept)) = kept
             /\ \A j \in 1..Len(coins') : ~HitsCoin(Advanced, coins'[j])
             /\ player_y' = player_y
             /\ impacts' = impacts =>
                    /\ player_x' = Advanced.player_x
                    /\ score' = score + 9 * TickDt + 25 * Unit * k
                                 + 700 * Unit * (win_calls' - win_calls)
             /\ boss = << >> /\ boss' = << >> => player_health' = player_health]_vars

\* C11's case: the five coins of setup, all at one place, were picked up in
\* one tick, and nothing else has touched the score.
C11_Witness ==
    /\ stage = "run" /\ impacts = 0 /\ win_calls = 0
    /\ 12 * score = distance + 12 * 5 * 25 * Unit

\* C12: in every state of a run no obstacle and no coin is more than 900
\* behind the player (after the tick's knockback too), and the cleanup
\* applied to what a tick's cleanup leaves changes nothing.
C12_Reaped ==
    /\ [](stage = "run" =>
            /\ \A i \in 1..Len(obstacles) : obstacles[i] >= player_x - 900 * Unit
            /\ \A i \in 1..Len(coins) : coins[i].x >= player_x - 900 * Unit)
    /\ [][RunStep /\ TickRan =>
            LET g == [Game EXCEPT !.player_x = Advanced.player_x]
            IN  Reap(Reap(g)) = Reap(g)]_vars

\* C12's case: a tick's cleanup has removed the five coins of setup, which
\* the player had passed under.
C12_Witness == stage = "run" /\ reaped = 5

\* C13: a tick called with dt <= 0 is a no-op: it leaves the player's
\* position, distance, score, timers, cooldown, boss, projectiles, health
\* and popups as they are.
C13_IdleNoOp ==
    [][idle_ticks' # idle_ticks =>
         UNCHANGED <<player_x, player_y, distance, score, obstacle_timer,
                     coin_timer, skill_cd, boss, projectiles, player_health,
                     damage_popups>>]_vars

\* The entries of a list that have the score s, in the list's order.
WithScore(list, s) == SelectSeq(list, LAMBDA e : e.score = s)
IsPrefix(a, b) == Len(a) <= Len(b) /\ SubSeq(b, 1, Len(a)) = a

\* C14: after any sequence of save_score calls from an empty or missing
\* leaderboard, the file holds at most 10 entries, sorted by descending
\* score, equal scores in the order of their insertion, and an entry that
\* was submitted is missing only when ten entries at least as high are kept.
C14_Leaderboard ==
    stage = "scores" =>
      /\ Len(leaderboard) = Min(10, Len(submitted))
      /\ \A i, j \in 1..Len(leaderboard) :
            i < j => leaderboard[i].score >= leaderboard[j].score
      /\ \A e \in SaveEntries :
            /\ IsPrefix(WithScore(leaderboard, e.score), WithScore(submitted, e.score))
            /\ Len(WithScore(leaderboard, e.score)) < Len(WithScore(submitted, e.score))
                  => /\ Len(leaderboard) = 10
                     /\ \A i \in 1..10 : leaderboard[i].score >= e.score

\* C14's case: the eleventh submission has pushed an entry off a full
\* leaderboard that holds equal scores under different names.
C14_Witness ==
    /\ stage = "scores" /\ Len(submitted) = 11 /\ Len(leaderboard) = 10
    /\ leaderboard[1].score = 2 /\ leaderboard[10].score = 1
    /\ \E i, j \in 1..10 : /\ leaderboard[i].score = leaderboard[j].score
                             /\ leaderboard[i].name # leaderboard[j].name

\* C15: reading a data file that is missing or does not parse never raises:
\* load_player then gives no data and load_leaderboard an empty list, and
\* the caller goes on.
C15_LoadsNeverRaise ==
    /\ stage # "crashed"
    /\ stage = "leaderboard" /\ board_file \in {"missing", "corrupt"} => shown = << >>

\* n impacts in a row on a position and on a score.
RECURSIVE KnockedBackTimes(_, _)
KnockedBackTimes(x, n) ==
    IF n = 0 THEN x ELSE KnockedBackTimes(Max(200 * Unit, x - 140 * Unit), n - 1)
RECURSIVE PenaltyTimes(_, _)
PenaltyTimes(s, n) ==
    IF n = 0 THEN s ELSE PenaltyTimes(Max(0, s - 40 * Unit), n - 1)

\* C16: every obstacle that overlaps the player in a tick is removed, takes
\* 40 from the score with a floor of 0 and knocks the player back to
\* max(200, x - 140); so the player's x is never below 200, and an impact
\* does not change the player's health.
C16_ObstacleImpact ==
    /\ [](stage = "run" => player_x >= 200 * Unit)
    /\ [][RunStep /\ TickRan =>
           LET hit(x) == ~Behind(x, Advanced.player_x) /\ HitsObstacle(Advanced, x)
               n    == Cardinality({i \in 1..Len(obstacles) : hit(obstacles[i])})
               k    == Cardinality({i \in 1..Len(coins) :
                          ~Behind(coins[i].x, Advanced.player_x)
                          /\ HitsCoin(Advanced, coins[i])})
               kept == SelectSeq(obstacles, LAMBDA x :
                          ~Behind(x, Advanced.player_x) /\ ~HitsObstacle(Advanced, x))
           IN  /\ impacts' = impacts + n
               /\ Len(obstacles') \in {Len(kept), Len(kept) + 1}
               /\ SubSeq(obstacles', 1, Len(kept)) = kept
               /\ player_x' = KnockedBackTimes(Advanced.player_x, n)
               /\ score' = PenaltyTimes(score + 9 * TickDt + 25 * Unit * k, n)
                              + 700 * Unit * (win_calls' - win_calls)
               /\ boss = << >> => player_health' = player_health]_vars

\* Six obstacles hit in one tick: the knockbacks end on the minimum and the
\* penalties on the floor.
C16_Witness ==
    stage = "run" /\ impacts = 6 /\ player_x = 200 * Unit /\ score = 0

\* C17: in every tick of a run that is on, with or without a boss, each
\* live projectile moves by its velocity (and is then removed if it hits
\* the player or leaves the bounding box): none is found afterwards where
\* it was.
C17_ProjectilesMove ==
    [][RunStep /\ TickRan =>
         \A i \in 1..Len(projectiles) : \A j \in 1..Len(projectiles') :
            projectiles'[j] # projectiles[i]]_vars

\* C18: the bounds rule never removes a projectile that lies between the
\* player and the boss at play height, whatever the distance of the
\* encounter: no tick culls such a projectile.
C18_NoCullInPlay == culled = 0

\* C19: in a tick in which the boss overlaps the player, the player loses
\* 18 + floor(distance / 1000) and the boss 40, one popup is queued, the
\* defeat runs if and only if the player's health is used up and the boss's
\* defeat if and only if the boss's is, the player's check first: when both
\* run, the score saved by the defeat is the one before the 700 of the
\* boss's defeat, and the 700 are added all the same.
C19_BossContact ==
    contact.n > 0 =>
        /\ contact.n = 1
        /\ contact.health_out
              = contact.health_in - (18 + contact.dist \div (1000 * Unit))
        /\ contact.boss_out = contact.boss_in - 40
        /\ contact.popups_out = contact.popups_in + 1
        /\ contact.lose_out
              = contact.lose_in + (IF contact.health_out <= 0 THEN 1 ELSE 0)
        /\ contact.win_out
              = contact.win_in + (IF contact.boss_out <= 0 THEN 1 ELSE 0)
        /\ contact.health_out <= 0 /\ contact.boss_out <= 0 =>
              /\ submitted # << >>
              /\ submitted[Len(submitted)].score = contact.score_in \div Unit
              /\ score = contact.score_in + 700 * Unit
              /\ game_over /\ boss = << >>

\* A contact that uses up the player's health and the boss's.
C19_Witness ==
    contact.n > 0 /\ contact.health_out <= 0 /\ contact.boss_out <= 0

\* C20: the boss advances its timers and emits after the tick's collision
\* resolution, so a projectile emitted in a tick is neither moved nor
\* tested against the player in that tick: after a tick in which the boss
\* fired, a projectile lies where it was emitted, 30 px before the boss.
C20_EmittedUnmoved ==
    [][RunStep /\ TickRan /\ boss' # << >> /\ boss'[1].shoot_timer = 0 =>
         \E j \in 1..Len(projectiles') :
            /\ projectiles'[j].x = boss'[1].x - 30 * Unit
            /\ projectiles'[j].y = boss'[1].y]_vars

\* C21: every tick with dt > 0 lowers the remaining lifetime of every popup
\* and drops those that reach 0, after the end of the run as before it: a
\* tick taken in the terminal state with popups left does not leave the list
\* of popups as it was.
C21_PopupsDrain ==
    [][stage = "run" /\ game_over /\ over_ticks' = over_ticks + 1
       /\ damage_popups # << >> => damage_popups' # damage_popups]_vars

\* C22: once the run has ended in defeat, the score that lose_game gave to
\* save_score is the floor of the score the game state holds: nothing is
\* added to the score after the final score was recorded.
C22_FinalScore ==
    stage = "run" /\ game_over =>
        /\ submitted # << >>
        /\ submitted[Len(submitted)].score = score \div Unit

\* C23: right after a boss spawn the raised threshold lies strictly beyond
\* the distance covered, in every run, also when the boss before stayed
\* alive while the distance passed the pending threshold.
C23_ThresholdAhead ==
    [][RunStep /\ boss_spawns' # boss_spawns => next_boss_at' > distance']_vars

\* The run is on.
Running == stage = "run" /\ ~game_over
\* The ticks of the model have come to their end.
Horizon == distance >= MaxDistance * Unit

\* C24 as stated: a tick adds 0.6 * speed * dt to the distance and nothing
\* else changes it; while the run is on a boss becomes active in the end;
\* and a running cooldown returns to 0 in the end.
C24_Progress ==
    /\ [][RunStep => distance' \in {distance} \cup {distance + 108 * dt : dt \in DtSet}]_vars
    /\ [][RunStep /\ (player_y' # player_y \/ skill_cd' > skill_cd)
           => distance' = distance]_vars
    /\ (Running /\ ~boss_active) ~> (boss_active \/ stage # "run" \/ Horizon)
    /\ (stage = "run" /\ skill_cd > 0) ~> (skill_cd = 0 \/ stage # "run" \/ Horizon)

\* C24, with the end of the run taken into account: the cooldown returns to
\* 0 unless the run ends first, after which it keeps its value.
C24_ProgressWhileOn ==
    /\ [][RunStep => distance' \in {distance} \cup {distance + 108 * dt : dt \in DtSet}]_vars
    /\ [][RunStep /\ (player_y' # player_y \/ skill_cd' > skill_cd)
           => distance' = distance]_vars
    /\ [][RunStep /\ TickRan /\ skill_cd > 0 => skill_cd' < skill_cd]_vars
    /\ [][TickStep <=> TickAdvance]_vars
    /\ (Running /\ ~boss_active) ~> (boss_active \/ stage # "run" \/ Horizon)
    /\ (Running /\ skill_cd > 0)
          ~> (skill_cd = 0 \/ game_over \/ stage # "run" \/ Horizon)
    /\ [][stage = "run" /\ game_over /\ stage' = "run" => skill_cd' = skill_cd]_vars

\* A boss has become active, and the cooldown of a cast at it has run down.
C24_Witness ==
    /\ Running /\ boss # << >> /\ boss_active
    /\ boss[1].health = boss[1].max_health - 42
    /\ skill_cd = 0

=============================================================================
